---- MODULE Spec2Model ----
(***************************************************************************)
(* Model of the chat widget: the client conversation controller            *)
(* (AgentComponent, pages/index.js) and the relay endpoint                 *)
(* (handler, pages/api/proxy.js).                                          *)
(*                                                                         *)
(* JavaScript strings are sequences of characters or of opaque tokens;     *)
(* JavaScript values that may be of several types are tagged records       *)
(* [t |-> type, v |-> payload].  A JSON text is described by whether it    *)
(* parses, the value it denotes and whether it is written canonically.     *)
(***************************************************************************)
EXTENDS Integers, Sequences, FiniteSets, TLC

(* ---------------- bounds ---------------- *)
MaxCalls == 2      \* submissions (accepted or still pending in a timer) per page load

(* ---------------- JavaScript values ---------------- *)
JUndefined == [t |-> "undefined"]
JNull == [t |-> "null"]
JStr(s) == [t |-> "str", v |-> s]
JObj(f) == [t |-> "obj", v |-> f]
EmptyObj == JObj([k \in {} |-> JNull])

\* JavaScript truthiness.
Truthy(x) ==
  CASE x.t = "undefined" -> FALSE
    [] x.t = "null" -> FALSE
    [] x.t = "str" -> x.v # <<>>
    [] OTHER -> TRUE

\* Property read x.k; reading a property of null or undefined throws.
CanRead(x) == x.t \notin {"undefined", "null"}
Prop(x, k) ==
  IF x.t = "obj" /\ k \in DOMAIN x.v THEN x.v[k] ELSE JUndefined

\* JSON.stringify / JSON.parse on texts [valid, pretty, value].
JSONstringify(x) == [valid |-> TRUE, pretty |-> FALSE, value |-> x]
NotJSON(raw) == [valid |-> FALSE, pretty |-> FALSE, value |-> JStr(<<raw>>)]
Pretty(x) == [valid |-> TRUE, pretty |-> TRUE, value |-> x]
Parses(text) == text.valid
JSONparse(text) == text.value

(* ---------------- strings ---------------- *)
\* Texts typed into the input field: empty, whitespace only, plain, and
\* with leading and trailing whitespace.
InputTexts == {<<>>, <<" ", " ">>, <<"a">>, <<" ", "a", " ">>}

IsSpace(c) == c = " "

RECURSIVE TrimStart(_)
TrimStart(s) ==
  IF s = <<>> THEN s
  ELSE IF IsSpace(Head(s)) THEN TrimStart(Tail(s)) ELSE s

RECURSIVE TrimEnd(_)
TrimEnd(s) ==
  IF s = <<>> THEN s
  ELSE IF IsSpace(s[Len(s)]) THEN TrimEnd(SubSeq(s, 1, Len(s) - 1)) ELSE s

\* A trim that forgets the trailing whitespace.
TrimLeadingOnly(s) == TrimStart(s)

\* String.prototype.trim
Trim(s) == TrimEnd(TrimStart(s))

Contains(s, tok) == \E i \in 1..Len(s) : s[i] = tok

(* ---------------- configuration ---------------- *)
suggestedPrompts == {<<"C">>}

FallbackReply == JStr(<<"No valid response received from agent.">>)

(* ---------------- identity (getSessionId / getUserId) ---------------- *)
MaxIdLen == 32

RECURSIVE Rep(_, _)
Rep(c, n) == IF n = 0 THEN <<>> ELSE <<c>> \o Rep(c, n - 1)

\* A version-4 UUID in its 8-4-4-4-12 text form, 36 characters.
UuidText(c) ==
  Rep(c, 8) \o <<"-">> \o Rep(c, 4) \o <<"-">> \o Rep(c, 4) \o <<"-">>
    \o Rep(c, 4) \o <<"-">> \o Rep(c, 12)

uuidv4 == {UuidText("1"), UuidText("2")}

RemoveDashes(s) == SelectSeq(s, LAMBDA c : c # "-")
Slice(s, n) == SubSeq(s, 1, IF Len(s) < n THEN Len(s) ELSE n)

\* uuidv4().replace(/-/g, "").slice(0, 32)
NewId(u) == Slice(RemoveDashes(u), MaxIdLen)

\* A read that forgets the length check.
ReadOrCreateIdAnyLength(stored, u) ==
  IF ~Truthy(stored) THEN <<JStr(NewId(u)), JStr(NewId(u))>>
  ELSE <<stored, stored>>

\* A read that keeps only values shorter than 32 characters.
ReadOrCreateIdStrict(stored, u) ==
  LET kept == IF Truthy(stored) /\ Len(stored.v) < MaxIdLen THEN stored ELSE JNull
  IN IF ~Truthy(kept) THEN <<JStr(NewId(u)), JStr(NewId(u))>>
     ELSE <<kept, stored>>

\* The stored value is kept when it is a non-empty string of at most 32
\* characters; otherwise a new id is generated from uuid u and stored.
\* The result is <<returned id, storage after the call>>.
ReadOrCreateId(stored, u) ==
  LET kept == IF Truthy(stored) /\ Len(stored.v) <= MaxIdLen THEN stored ELSE JNull
  IN IF ~Truthy(kept) THEN <<JStr(NewId(u)), JStr(NewId(u))>>
     ELSE <<kept, stored>>

getSessionId(stored, u) == ReadOrCreateId(stored, u)
getUserId(stored, u) == ReadOrCreateId(stored, u)

\* Values found in storage on a page load: nothing, an empty string, an id
\* this code wrote, a short id, strings of 31 and of 33 characters and a
\* whole uuid of 36.
StoredValues ==
  {JNull, JStr(<<>>), JStr(NewId(UuidText("0"))), JStr(<<"u", "1">>),
   JStr(Rep("7", MaxIdLen - 1)), JStr(Rep("9", MaxIdLen + 1)),
   JStr(UuidText("0"))}

\* A profile that has used the widget before opens it in a new tab: the
\* durable storage holds a user id, the session-scoped storage is empty.
ReturningUser == JStr(NewId(UuidText("0")))

(* ---------------- client state ---------------- *)
VARIABLES
  message,         \* text of the input field
  conversation,    \* sequence of Message
  error,           \* JNull or a JStr
  isLoading,       \* busy flag
  sessionId,       \* component state, "" until the mount effect has run
  userId,
  sessionStorage,  \* stored "sessionId" item, JNull when absent
  localStorage,    \* stored "userId" item, JNull when absent
  mounted,         \* the mount effect has run
  timers,          \* prompts of pending setTimeout(..., 0) callbacks, in order
  calls,           \* submitMessage invocations that reached the fetch
  lastOp           \* history: the handler that ran last and its input

clientVars == <<message, conversation, error, isLoading, sessionId, userId,
                sessionStorage, localStorage, mounted, timers, calls, lastOp>>

Message(role, content) == [role |-> role, content |-> content]

\* Request envelope built by submitMessage.
Payload(userMessage) ==
  [data |-> [message |-> userMessage],
   stateful |-> TRUE,
   stream |-> FALSE,
   user_id |-> userId,
   session_id |-> sessionId,
   verbose |-> FALSE]

\* A call is in flight from the fetch until the handler has finished.
InFlight == {i \in 1..Len(calls) : calls[i].pc # "done"}

ClientInit ==
  /\ message = <<>>
  /\ conversation = <<>>
  /\ error = JNull
  /\ isLoading = FALSE
  /\ sessionId = JStr(<<>>)
  /\ userId = JStr(<<>>)
  /\ sessionStorage = JNull
  /\ localStorage = ReturningUser
  /\ mounted = FALSE
  /\ timers = <<>>
  /\ calls = <<>>
  /\ lastOp = [op |-> "init"]

\* useEffect(() => { setSessionId(getSessionId()); setUserId(getUserId()); }, [])
identityEffect ==
  /\ ~mounted
  /\ \E us \in uuidv4, uu \in uuidv4 :
       LET s == getSessionId(sessionStorage, us)
           u == getUserId(localStorage, uu)
       IN /\ sessionId' = s[1]
          /\ sessionStorage' = s[2]
          /\ userId' = u[1]
          /\ localStorage' = u[2]
  /\ mounted' = TRUE
  /\ lastOp' = [op |-> "mount",
                keptSession |-> sessionStorage' = sessionStorage,
                keptUser |-> localStorage' = localStorage]
  /\ UNCHANGED <<message, conversation, error, isLoading, timers, calls>>

\* onChange of the input field.
typeText ==
  /\ mounted
  /\ \E s \in InputTexts : message' = s
  /\ lastOp' = [op |-> "type"]
  /\ UNCHANGED <<conversation, error, isLoading, sessionId, userId,
                 sessionStorage, localStorage, mounted, timers, calls>>

\* The page is loaded again in the same tab: the component starts from its
\* initial state, both storages keep their items.
reload ==
  /\ mounted
  /\ message' = <<>>
  /\ conversation' = <<>>
  /\ error' = JNull
  /\ isLoading' = FALSE
  /\ sessionId' = JStr(<<>>)
  /\ userId' = JStr(<<>>)
  /\ mounted' = FALSE
  /\ timers' = <<>>
  /\ calls' = <<>>
  /\ lastOp' = [op |-> "reload"]
  /\ UNCHANGED <<sessionStorage, localStorage>>

\* The tab is closed and the page opened in a new one: the session-scoped
\* storage starts empty, the durable storage keeps its item.
endSession ==
  /\ mounted
  /\ message' = <<>>
  /\ conversation' = <<>>
  /\ error' = JNull
  /\ isLoading' = FALSE
  /\ sessionId' = JStr(<<>>)
  /\ userId' = JStr(<<>>)
  /\ mounted' = FALSE
  /\ timers' = <<>>
  /\ calls' = <<>>
  /\ sessionStorage' = JNull
  /\ lastOp' = [op |-> "endSession"]
  /\ UNCHANGED localStorage

NewCall(userMessage) ==
  [pc |-> "fetch",
   request |-> [method |-> "POST", url |-> "/api/proxy",
                body |-> JSONstringify(Payload(userMessage))],
   before |-> conversation,
   sent |-> Append(conversation, userMessage),
   rejected |-> FALSE]

\* A submitMessage that clears the error before it looks at the input.
submitMessageClearingFirst(userInput, via) ==
  /\ lastOp' = [op |-> via, input |-> userInput]
  /\ error' = JNull
  /\ IF Trim(userInput) = <<>>
     THEN UNCHANGED <<message, conversation, isLoading, calls>>
     ELSE LET userMessage == Message("user", JStr(Trim(userInput)))
          IN /\ Len(calls) < MaxCalls
             /\ message' = <<>>
             /\ conversation' = Append(conversation, userMessage)
             /\ isLoading' = TRUE
             /\ calls' = Append(calls, NewCall(userMessage))

\* The synchronous part of submitMessage(userInput), up to the await of fetch.
\* via names the caller for the history variable.
submitMessage(userInput, via) ==
  /\ lastOp' = [op |-> via, input |-> userInput]
  /\ IF Trim(userInput) = <<>>
     THEN UNCHANGED <<message, conversation, error, isLoading, calls>>
     ELSE LET userMessage == Message("user", JStr(Trim(userInput)))
          IN /\ Len(calls) < MaxCalls
             /\ message' = <<>>
             /\ error' = JNull
             /\ conversation' = Append(conversation, userMessage)
             /\ isLoading' = TRUE
             /\ calls' = Append(calls, NewCall(userMessage))

\* Form submission; the submit button carries disabled={isLoading}.
handleSubmit ==
  /\ mounted
  /\ ~isLoading
  /\ submitMessage(message, "submit")
  /\ UNCHANGED <<sessionId, userId, sessionStorage, localStorage, mounted, timers>>

\* Click on a suggested prompt; the buttons carry disabled={isLoading}.
handlePromptClick ==
  /\ mounted
  /\ ~isLoading
  /\ Len(timers) + Len(calls) < MaxCalls
  /\ \E prompt \in suggestedPrompts :
       /\ message' = prompt
       /\ timers' = Append(timers, prompt)
       /\ lastOp' = [op |-> "click", input |-> prompt]
  /\ UNCHANGED <<conversation, error, isLoading, sessionId, userId,
                 sessionStorage, localStorage, mounted, calls>>

\* The zero-delay timer set by handlePromptClick fires.
promptTimer ==
  /\ timers # <<>>
  /\ submitMessage(Head(timers), "timer")
  /\ timers' = Tail(timers)
  /\ UNCHANGED <<sessionId, userId, sessionStorage, localStorage, mounted>>

(* ---------------- responses seen by the client ---------------- *)
Statuses == {200, 404, 500}

\* Response.ok
Ok(status) == status \in 200..299

\* Outcome of the fetch: the promise rejects (network failure) or resolves
\* with a response carrying a status.
NetworkFailure == [kind |-> "reject", message |-> <<"Failed to fetch">>]
FetchOutcomes ==
  {NetworkFailure} \cup {[kind |-> "response", status |-> st] : st \in Statuses}

ReplyText == <<"Hello">>

\* Body texts a 2xx response may carry.
ResponseBodies ==
  {JSONstringify(JObj([output_data |-> JObj([content |-> JStr(ReplyText)])])),
   JSONstringify(JObj([output_data |-> JObj([content |-> JStr(<<>>)])])),
   JSONstringify(JObj([output_data |-> EmptyObj])),
   JSONstringify(EmptyObj),
   JSONstringify(JNull),
   NotJSON("")}

Threw(msg) == [threw |-> TRUE, message |-> msg]
Returned(x) == [threw |-> FALSE, value |-> x]

\* data.output_data && data.output_data.content
\*   ? data.output_data.content : "No valid response received from agent."
agentReply(data) ==
  LET od == Prop(data, "output_data")
  IN IF Truthy(od) /\ Truthy(Prop(od, "content"))
     THEN Prop(od, "content")
     ELSE FallbackReply

\* The try block after the fetch has settled, up to the await of res.json().
AfterFetch(outcome) ==
  IF outcome.kind = "reject" THEN Threw(outcome.message)
  ELSE IF ~Ok(outcome.status)
       THEN Threw(<<"Server error: ", ToString(outcome.status)>>)
       ELSE Returned("json")

\* The try block after res.json() has settled on the body text.
AfterJson(text) ==
  IF ~Parses(text) THEN Threw(<<"Unexpected end of JSON input">>)
  ELSE LET data == JSONparse(text)
       IN IF ~CanRead(data)
          THEN Threw(<<"Cannot read properties of null">>)
          ELSE Returned(agentReply(data))

\* The busy flag reset at the end of the try block instead of in finally.
LoadingResetInTryOnly(r) == r.threw

\* finally { setIsLoading(false); }
FinallyLoading(r) == FALSE

\* catch (err) takes whatever the try block threw: nothing leaves the handler.
Uncaught(r) == FALSE

\* A settlement that leaves the input field alone on success.
SettleKeepingInput(i, r) ==
  /\ conversation' = IF r.threw THEN conversation
                     ELSE Append(conversation, Message("agent", r.value))
  /\ message' = message
  /\ error' = IF r.threw THEN JStr(r.message) ELSE error
  /\ isLoading' = FinallyLoading(r)
  /\ calls' = [calls EXCEPT ![i].pc = "done", ![i].rejected = Uncaught(r)]

\* A settlement that appends the agent message to the history its call saw
\* when it was dispatched, not to the current one.
SettleFromSnapshot(i, r) ==
  /\ conversation' = IF r.threw THEN conversation
                     ELSE Append(calls[i].sent, Message("agent", r.value))
  /\ message' = IF r.threw THEN message ELSE <<>>
  /\ error' = IF r.threw THEN JStr(r.message) ELSE error
  /\ isLoading' = FinallyLoading(r)
  /\ calls' = [calls EXCEPT ![i].pc = "done", ![i].rejected = Uncaught(r)]

\* catch and finally of submitMessage for a try block that ended with r,
\* and the success path's two state updates.
Settle(i, r) ==
  /\ conversation' = IF r.threw THEN conversation
                     ELSE Append(conversation, Message("agent", r.value))
  /\ message' = IF r.threw THEN message ELSE <<>>
  /\ error' = IF r.threw THEN JStr(r.message) ELSE error
  /\ isLoading' = FinallyLoading(r)
  /\ calls' = [calls EXCEPT ![i].pc = "done", ![i].rejected = Uncaught(r)]

\* The fetch of call i settles.
fetchSettles ==
  \E i \in 1..Len(calls), outcome \in FetchOutcomes :
    /\ calls[i].pc = "fetch"
    /\ lastOp' = [op |-> "fetch", call |-> i, outcome |-> outcome, typed |-> message]
    /\ LET r == AfterFetch(outcome)
       IN IF r.threw
          THEN Settle(i, r)
          ELSE /\ calls' = [calls EXCEPT ![i].pc = "json"]
               /\ UNCHANGED <<message, conversation, error, isLoading>>
    /\ UNCHANGED <<sessionId, userId, sessionStorage, localStorage, mounted, timers>>

\* res.json() of call i settles.
jsonSettles ==
  \E i \in 1..Len(calls), text \in ResponseBodies :
    /\ calls[i].pc = "json"
    /\ lastOp' = [op |-> "json", call |-> i, text |-> text, typed |-> message]
    /\ Settle(i, AfterJson(text))
    /\ UNCHANGED <<sessionId, userId, sessionStorage, localStorage, mounted, timers>>

(* ---------------- relay endpoint (handler) ---------------- *)
VARIABLES
  req,        \* the incoming request: method and parsed body
  apiKey,     \* process.env.ZEROWIDTH_API_KEY
  rpc,        \* where the invocation stands: idle, start, fetch, text, json, done
  res,        \* the response object: statusCode, headers, body, number of sends
  upstream,   \* how the upstream fetch settled, and how the read of its body ended
  forwarded,  \* requests issued to the upstream API
  twin        \* the same invocation run with a key of its own: apiKey, rpc, res, forwarded

relayVars == <<req, apiKey, rpc, res, upstream, forwarded, twin>>

flowURL == "https://api.zerowidth.ai/v1/process/..."

Methods == {"OPTIONS", "POST", "GET", "PUT"}

\* Parsed request bodies: an envelope, an object of another shape, a bare
\* string, and no body at all.
RequestBodies ==
  {JObj([data |-> JObj([message |-> JObj([role |-> JStr(<<"user">>),
                                         content |-> JStr(<<"a">>)])])]),
   EmptyObj,
   JStr(<<"x">>),
   JUndefined}

ApiKeys == {"sk0w-1", "sk0w-2"}

UpstreamStatuses == {200, 201, 204, 404, 500}

UpstreamTexts ==
  {JSONstringify(JObj([output_data |-> JObj([content |-> JStr(ReplyText)])])),
   Pretty(EmptyObj),
   JSONstringify(JNull),
   NotJSON(""),
   NotJSON("<html>")}

UpstreamOutcomes ==
  {[kind |-> "reject", message |-> <<"fetch failed">>]}
    \cup {[kind |-> "response", status |-> st, text |-> tx] :
            st \in UpstreamStatuses, tx \in UpstreamTexts}

\* Outcomes of reading the upstream body: it arrives, or the stream fails.
BodyReads == {"ok", "terminated"}

NoHeaders == [h \in {} |-> ""]
EmptyBody == NotJSON("")
NoResponse == [outcome |-> [kind |-> "none"], read |-> "pending"]

FreshRes == [statusCode |-> 200, headers |-> NoHeaders, body |-> EmptyBody, sends |-> 0]

\* res.setHeader(name, value)
setHeader(r, name, value) == [r EXCEPT !.headers = (name :> value) @@ r.headers]

\* res.status(code)
status(r, code) == [r EXCEPT !.statusCode = code]

\* res.end()
end(r) == [r EXCEPT !.sends = @ + 1]

\* res.json(x)
json(r, x) ==
  [setHeader(r, "Content-Type", "application/json")
     EXCEPT !.body = JSONstringify(x), !.sends = @ + 1]

\* A handler that forgets the Access-Control-Allow-Headers header.
CorsHeadersTwo(r) ==
  setHeader(
    setHeader(r, "Access-Control-Allow-Origin", "*"),
    "Access-Control-Allow-Methods", "POST, OPTIONS")

CorsHeaders(r) ==
  setHeader(
    setHeader(
      setHeader(r, "Access-Control-Allow-Origin", "*"),
      "Access-Control-Allow-Methods", "POST, OPTIONS"),
    "Access-Control-Allow-Headers", "Content-Type, Authorization")

\* A request that carries the key without the Bearer scheme.
UpstreamRequestBareKey(body, key) ==
  [url |-> flowURL,
   method |-> "POST",
   headers |-> [ContentType |-> "application/json",
                Authorization |-> <<key>>],
   body |-> IF body.t = "undefined" THEN EmptyBody ELSE JSONstringify(body)]

\* The request the handler sends upstream; JSON.stringify(undefined) is
\* undefined, and the request then has no body.
UpstreamRequest(body, key) ==
  [url |-> flowURL,
   method |-> "POST",
   headers |-> [ContentType |-> "application/json",
                Authorization |-> <<"Bearer ", key>>],
   body |-> IF body.t = "undefined" THEN EmptyBody ELSE JSONstringify(body)]

\* A relay that passes the upstream status on when there is one.
ErrorStatusFromUpstream(up) == IF up.kind = "response" THEN up.status ELSE 500

\* catch (error) { res.status(500).json({error, details: error.message}) }
ErrorStatus(up) == 500

CatchResponse(r, msg, up) ==
  json(status(r, ErrorStatus(up)),
       JObj([error |-> JStr(<<"Internal Server Error">>),
             details |-> JStr(msg)]))

\* `Zerowidth API error ${response.status}: ${errorText}`
UpstreamErrorMessage(st, text) ==
  <<"Zerowidth API error ", ToString(st), ": ", ToString(text)>>

\* A relay that keeps the upstream's success status.
SuccessStatusFromUpstream(up) == up.status

\* res.status(200).json(data)
SuccessStatus(up) == 200

SuccessResponse(r, data, up) == json(status(r, SuccessStatus(up)), data)

\* A method check that lets GET through as well.
AllowedWithGet(method) == method \in {"POST", "GET"}

\* Only POST reaches the upstream call.
Allowed(method) == method = "POST"

\* The handler up to its first await, for request rq, key and response r:
\* the response so far, the next position and the upstream requests issued.
StartStep(rq, key, r) ==
  LET c == CorsHeaders(r)
  IN IF rq.method = "OPTIONS"
     THEN [res |-> end(status(c, 200)), rpc |-> "done", out |-> <<>>]
     ELSE IF ~Allowed(rq.method)
     THEN [res |-> json(status(c, 405),
                        JObj([error |-> JStr(<<"Method not allowed">>)])),
           rpc |-> "done", out |-> <<>>]
     ELSE [res |-> c, rpc |-> "fetch", out |-> <<UpstreamRequest(rq.body, key)>>]

\* The continuation of await fetch(...): a rejection goes to the catch, a
\* response to the read of its body.
FetchStep(r, outcome) ==
  IF outcome.kind = "reject"
  THEN [res |-> CatchResponse(r, outcome.message, outcome), rpc |-> "done"]
  ELSE [res |-> r, rpc |-> IF Ok(outcome.status) THEN "json" ELSE "text"]

\* An error message that quotes the request's Authorization header.
TextStepLeaking(r, up, read, key) ==
  CatchResponse(r,
    IF read = "ok"
    THEN UpstreamErrorMessage(up.status, up.text) \o <<" (Bearer ", key, ")">>
    ELSE <<read>>,
    up)

\* The continuation of await response.text() on a non-2xx response: either
\* way the handler throws and the catch answers.
TextStep(r, up, read, key) ==
  CatchResponse(r,
    IF read = "ok" THEN UpstreamErrorMessage(up.status, up.text) ELSE <<read>>,
    up)

\* A handler that answers 200 with an empty object when the body does not parse.
JsonStepLenient(r, up, read, key) ==
  IF read = "ok"
  THEN SuccessResponse(r, IF Parses(up.text) THEN JSONparse(up.text) ELSE EmptyObj, up)
  ELSE CatchResponse(r, <<read>>, up)

\* The continuation of await response.json() on a 2xx response.
JsonStep(r, up, read, key) ==
  IF read = "ok" /\ Parses(up.text)
  THEN SuccessResponse(r, JSONparse(up.text), up)
  ELSE CatchResponse(r,
         IF read = "ok" THEN <<"Unexpected end of JSON input">> ELSE <<read>>,
         up)

RelayIdle ==
  /\ req = [method |-> "POST", body |-> JUndefined]
  /\ apiKey = "sk0w-1"
  /\ rpc = "idle"
  /\ res = FreshRes
  /\ upstream = NoResponse
  /\ forwarded = <<>>
  /\ twin = [apiKey |-> "sk0w-1", rpc |-> "idle", res |-> FreshRes, forwarded |-> <<>>]

\* One invocation, for any method, body and configured key; the twin is the
\* same invocation under a key of its own.
RelayInit ==
  /\ req \in [method : Methods, body : RequestBodies]
  /\ apiKey \in ApiKeys
  /\ rpc = "start"
  /\ res = FreshRes
  /\ upstream = NoResponse
  /\ forwarded = <<>>
  /\ twin \in [apiKey : ApiKeys, rpc : {"start"}, res : {FreshRes}, forwarded : {<<>>}]

\* The handler up to its first await: CORS headers, method dispatch, fetch.
handlerStart ==
  /\ rpc = "start"
  /\ LET n == StartStep(req, apiKey, res)
         t == StartStep(req, twin.apiKey, twin.res)
     IN /\ res' = n.res
        /\ rpc' = n.rpc
        /\ forwarded' = forwarded \o n.out
        /\ twin' = IF twin.rpc = "start"
                   THEN [twin EXCEPT !.res = t.res, !.rpc = t.rpc,
                                     !.forwarded = @ \o t.out]
                   ELSE twin
  /\ UNCHANGED <<req, apiKey, upstream>>

\* The upstream fetch settles.
upstreamFetchSettles ==
  /\ rpc = "fetch"
  /\ \E outcome \in UpstreamOutcomes :
       LET n == FetchStep(res, outcome)
           t == FetchStep(twin.res, outcome)
       IN /\ upstream' = [outcome |-> outcome, read |-> "pending"]
          /\ res' = n.res
          /\ rpc' = n.rpc
          /\ twin' = IF twin.rpc = "fetch"
                     THEN [twin EXCEPT !.res = t.res, !.rpc = t.rpc]
                     ELSE twin
  /\ UNCHANGED <<req, apiKey, forwarded>>

\* response.text() settles on a non-2xx response.
upstreamTextSettles ==
  /\ rpc = "text"
  /\ \E read \in BodyReads :
       /\ res' = TextStep(res, upstream.outcome, read, apiKey)
       /\ upstream' = [upstream EXCEPT !.read = read]
       /\ twin' = IF twin.rpc = "text"
                  THEN [twin EXCEPT
                          !.res = TextStep(twin.res, upstream.outcome, read, twin.apiKey),
                          !.rpc = "done"]
                  ELSE twin
  /\ rpc' = "done"
  /\ UNCHANGED <<req, apiKey, forwarded>>

\* response.json() settles on a 2xx response.
upstreamJsonSettles ==
  /\ rpc = "json"
  /\ \E read \in BodyReads :
       /\ res' = JsonStep(res, upstream.outcome, read, apiKey)
       /\ upstream' = [upstream EXCEPT !.read = read]
       /\ twin' = IF twin.rpc = "json"
                  THEN [twin EXCEPT
                          !.res = JsonStep(twin.res, upstream.outcome, read, twin.apiKey),
                          !.rpc = "done"]
                  ELSE twin
  /\ rpc' = "done"
  /\ UNCHANGED <<req, apiKey, forwarded>>

(* ---------------- specifications ---------------- *)
vars == <<clientVars, relayVars>>

\* The widget in one page load.
Init == ClientInit /\ RelayIdle

Next ==
  \/ identityEffect /\ UNCHANGED relayVars
  \/ typeText /\ UNCHANGED relayVars
  \/ handleSubmit /\ UNCHANGED relayVars
  \/ handlePromptClick /\ UNCHANGED relayVars
  \/ promptTimer /\ UNCHANGED relayVars
  \/ fetchSettles /\ UNCHANGED relayVars
  \/ jsonSettles /\ UNCHANGED relayVars

Spec == Init /\ [][Next]_vars

\* The same, when every request is answered and every body is delivered:
\* the event loop runs the continuation of a settled promise.
Answered ==
  /\ WF_vars(fetchSettles /\ UNCHANGED relayVars)
  /\ WF_vars(jsonSettles /\ UNCHANGED relayVars)

LiveSpec == Init /\ [][Next]_vars /\ Answered

\* One invocation of the relay.
RelaySpecInit == RelayInit /\ ClientInit

RelaySpecNext ==
  \/ handlerStart /\ UNCHANGED clientVars
  \/ upstreamFetchSettles /\ UNCHANGED clientVars
  \/ upstreamTextSettles /\ UNCHANGED clientVars
  \/ upstreamJsonSettles /\ UNCHANGED clientVars

RelaySpec == RelaySpecInit /\ [][RelaySpecNext]_vars

\* Page loads, reloads and session ends of one browser profile, from any
\* stored values.
IdInit ==
  /\ message = <<>>
  /\ conversation = <<>>
  /\ error = JNull
  /\ isLoading = FALSE
  /\ sessionId = JStr(<<>>)
  /\ userId = JStr(<<>>)
  /\ sessionStorage \in StoredValues
  /\ localStorage \in StoredValues
  /\ mounted = FALSE
  /\ timers = <<>>
  /\ calls = <<>>
  /\ lastOp = [op |-> "init"]
  /\ RelayIdle

IdNext ==
  \/ identityEffect /\ UNCHANGED relayVars
  \/ reload /\ UNCHANGED relayVars
  \/ endSession /\ UNCHANGED relayVars

IdSpec == IdInit /\ [][IdNext]_vars

(* ---------------- properties ---------------- *)
Last(q) == q[Len(q)]
Blank(s) == \A i \in 1..Len(s) : s[i] = " "

\* t is s without its leading and trailing whitespace.
IsTrimOf(t, s) ==
  \E i \in 1..(Len(s) + 1), j \in 0..Len(s) :
    /\ t = SubSeq(s, i, j)
    /\ \A k \in 1..(i - 1) : s[k] = " "
    /\ \A k \in (j + 1)..Len(s) : s[k] = " "
    /\ t # <<>> => t[1] # " " /\ t[Len(t)] # " "

IsSubmit(op) == op.op \in {"submit", "timer"}
TwoHundreds(st) == st >= 200 /\ st <= 299

\* C1: at most one POST to /api/proxy is in flight at any time.
C1_OneInFlight == Cardinality(InFlight) <= 1

\* C2: the busy flag is true exactly while a dispatched request is
\* unresolved (the controls are enabled exactly when it is false).
C2_BusyIffInFlight == isLoading <=> (InFlight # {})

\* C3: when a dispatched request resolves (2xx, non-2xx or network failure)
\* the handler ends with the busy flag cleared and without throwing, and
\* while every request is answered a set busy flag is eventually cleared.
C3_BusyCleared ==
  /\ [][(lastOp'.op \in {"fetch", "json"} /\ calls'[lastOp'.call].pc = "done")
          => (~isLoading' /\ ~calls'[lastOp'.call].rejected)]_vars
  /\ (isLoading ~> ~isLoading)

C3_Witness ==
  /\ lastOp.op = "fetch"
  /\ lastOp.outcome.kind = "response"
  /\ lastOp.outcome.status = 500
  /\ calls[lastOp.call].pc = "done"
  /\ lastOp.call = 2
  /\ ~isLoading

\* C4: a Submit whose trimmed text is non-empty appends exactly one user
\* Message holding the trimmed text, the history already holds it when the
\* request is dispatched, and the request envelope carries that Message.
C4_UserMessageFirst ==
  [][(IsSubmit(lastOp') /\ ~Blank(lastOp'.input))
       => /\ Len(conversation') = Len(conversation) + 1
          /\ SubSeq(conversation', 1, Len(conversation)) = conversation
          /\ Last(conversation').role = "user"
          /\ Last(conversation').content.t = "str"
          /\ IsTrimOf(Last(conversation').content.v, lastOp'.input)
          /\ Len(calls') = Len(calls) + 1
          /\ Last(calls').pc = "fetch"
          /\ Last(calls').sent = conversation'
          /\ JSONparse(Last(calls').request.body).data.message = Last(conversation')]_vars

C4_Witness ==
  /\ lastOp.op = "submit"
  /\ lastOp.input = <<" ", "a", " ">>
  /\ Len(conversation) = 3
  /\ Last(conversation) = Message("user", JStr(<<"a">>))
  /\ Last(calls).pc = "fetch"

\* C5: a Submit of an empty or whitespace-only text changes neither the
\* history nor the busy flag nor the error string and dispatches nothing.
C5_BlankSubmitNoOp ==
  [][(IsSubmit(lastOp') /\ Blank(lastOp'.input))
       => UNCHANGED <<conversation, isLoading, error, calls>>]_vars

C5_Witness ==
  /\ lastOp.op = "submit"
  /\ lastOp.input = <<" ", " ">>
  /\ error # JNull
  /\ conversation # <<>>

\* C6: a 2xx body whose output_data.content is the string X makes the
\* client append exactly one agent Message with content X.
C6_ContentAppended ==
  [][(/\ lastOp'.op = "json"
      /\ Parses(lastOp'.text)
      /\ Prop(Prop(JSONparse(lastOp'.text), "output_data"), "content").t = "str")
       => conversation' =
            Append(conversation,
                   Message("agent",
                           Prop(Prop(JSONparse(lastOp'.text), "output_data"), "content")))]_vars

\* C7: a 2xx body without output_data, or without output_data.content, is
\* no error: the error string stays unset and one agent Message with the
\* fallback text is appended.
C7_FallbackAppended ==
  [][(/\ lastOp'.op = "json"
      /\ Parses(lastOp'.text)
      /\ Prop(Prop(JSONparse(lastOp'.text), "output_data"), "content").t = "undefined")
       => /\ error' = JNull
          /\ conversation' =
               Append(conversation,
                      Message("agent", JStr(<<"No valid response received from agent.">>)))]_vars

\* C8: when a turn's request is answered with a non-2xx status S, the history
\* is then the history before that Submit plus its one user Message, and the
\* error string is non-empty and contains S.
C8_FailedTurn ==
  [][(/\ lastOp'.op = "fetch"
      /\ lastOp'.outcome.kind = "response"
      /\ ~TwoHundreds(lastOp'.outcome.status))
       => /\ Len(conversation') = Len(calls[lastOp'.call].before) + 1
          /\ SubSeq(conversation', 1, Len(conversation') - 1) = calls[lastOp'.call].before
          /\ Last(conversation') =
               JSONparse(calls[lastOp'.call].request.body).data.message
          /\ error'.t = "str"
          /\ error'.v # <<>>
          /\ Contains(error'.v, ToString(lastOp'.outcome.status))]_vars

(* ---- relay ---- *)
Answer == JSONparse(res.body)
UpstreamFailed ==
  /\ rpc = "done"
  /\ req.method = "POST"
  /\ \/ upstream.outcome.kind = "reject"
     \/ upstream.outcome.kind = "response" /\ ~TwoHundreds(upstream.outcome.status)

ErrorAnswer ==
  /\ res.statusCode = 500
  /\ Parses(res.body)
  /\ Prop(Answer, "error") = JStr(<<"Internal Server Error">>)
  /\ Prop(Answer, "details").t = "str"
  /\ Prop(Answer, "details").v # <<>>

\* C9 as stated: after a failed upstream call the relay answers 500 with
\* error "Internal Server Error" and a details text, and its status is
\* never the upstream's status.
C9_NeverUpstreamStatus ==
  UpstreamFailed =>
    /\ ErrorAnswer
    /\ upstream.outcome.kind = "response" => res.statusCode # upstream.outcome.status

\* C9 as amended: after a failed upstream call the relay answers 500 with
\* error "Internal Server Error" and a details text, whatever the upstream
\* status was.
C9_AlwaysFiveHundred == UpstreamFailed => ErrorAnswer

C9_Witness ==
  /\ UpstreamFailed
  /\ upstream.outcome.kind = "response"
  /\ upstream.outcome.status = 404
  /\ upstream.read = "ok"
  /\ res.statusCode = 500
  /\ Contains(Prop(Answer, "details").v, "404")

UpstreamSucceeded ==
  /\ rpc = "done"
  /\ req.method = "POST"
  /\ upstream.outcome.kind = "response"
  /\ TwoHundreds(upstream.outcome.status)

Relayed ==
  /\ res.statusCode = 200
  /\ Parses(res.body)
  /\ Answer = upstream.outcome.text.value

\* C10 as stated: whenever upstream answers 2xx the relay answers 200 with
\* the upstream's parsed JSON body.
C10_AnySuccessRelayed == UpstreamSucceeded => Relayed

\* C10 as amended: whenever upstream answers 2xx with a body that arrives
\* and parses as JSON, the relay answers 200 with that parsed body.
C10_ParsedSuccessRelayed ==
  (UpstreamSucceeded /\ upstream.read = "ok" /\ upstream.outcome.text.valid) => Relayed

C10_Witness ==
  /\ UpstreamSucceeded
  /\ upstream.outcome.status = 201
  /\ upstream.read = "ok"
  /\ upstream.outcome.text = Pretty(EmptyObj)
  /\ res.statusCode = 200
  /\ res.body # upstream.outcome.text

\* C11: a POST, whatever its body, makes the relay issue exactly one upstream
\* request: a POST to the configured URL, with Authorization: Bearer <key> and
\* a JSON body denoting the received body (no body when none was received);
\* any other method issues none.
ForwardedBodyIs(text, body) ==
  IF body = JUndefined THEN text = EmptyBody
  ELSE Parses(text) /\ JSONparse(text) = body

C11_ForwardedOnce ==
  IF req.method = "POST" /\ rpc \notin {"idle", "start"}
  THEN /\ Len(forwarded) = 1
       /\ forwarded[1].url = flowURL
       /\ forwarded[1].method = "POST"
       /\ forwarded[1].headers.Authorization = <<"Bearer ", apiKey>>
       /\ ForwardedBodyIs(forwarded[1].body, req.body)
  ELSE forwarded = <<>>

C11_Witness ==
  /\ rpc = "done"
  /\ req.method = "POST"
  /\ req.body = JStr(<<"x">>)
  /\ apiKey = "sk0w-2"
  /\ Len(forwarded) = 1

\* C12: a request whose method is neither POST nor OPTIONS is answered 405
\* with the body {"error":"Method not allowed"}, whatever its body.
C12_MethodNotAllowed ==
  (rpc = "done" /\ req.method \notin {"POST", "OPTIONS"})
    => /\ res.statusCode = 405
       /\ Parses(res.body)
       /\ Answer = JObj([error |-> JStr(<<"Method not allowed">>)])
       /\ res.sends = 1

C12_Witness ==
  /\ rpc = "done"
  /\ req.method = "GET"
  /\ req.body # JUndefined
  /\ res.statusCode = 405

\* C13: an OPTIONS request is answered 200 with an empty body and the three
\* CORS headers, whatever its body.
HasHeader(r, name, value) == name \in DOMAIN r.headers /\ r.headers[name] = value

C13_Preflight ==
  (rpc = "done" /\ req.method = "OPTIONS")
    => /\ res.statusCode = 200
       /\ res.body = EmptyBody
       /\ res.sends = 1
       /\ HasHeader(res, "Access-Control-Allow-Origin", "*")
       /\ HasHeader(res, "Access-Control-Allow-Methods", "POST, OPTIONS")
       /\ HasHeader(res, "Access-Control-Allow-Headers", "Content-Type, Authorization")

C13_Witness ==
  /\ rpc = "done"
  /\ req.method = "OPTIONS"
  /\ req.body = EmptyObj
  /\ res.statusCode = 200
  /\ res.sends = 1

\* C17: two invocations that differ only in the key, with the same request
\* and the same upstream behaviour, stand at the same place with the same
\* response (status, headers, body); their upstream requests differ in the
\* Authorization header alone, and the key occurs nowhere in the response.
WithoutAuthorization(rq) == [rq EXCEPT !.headers.Authorization = <<>>]

KeyFree(r, key) ==
  /\ \A h \in DOMAIN r.headers : r.headers[h] # key
  /\ (Parses(r.body) /\ JSONparse(r.body).t = "obj") =>
       \A f \in DOMAIN JSONparse(r.body).v :
         JSONparse(r.body).v[f].t = "str" => ~Contains(JSONparse(r.body).v[f].v, key)

C17_KeyNotExposed ==
  rpc # "idle" =>
    /\ twin.rpc = rpc
    /\ twin.res = res
    /\ Len(twin.forwarded) = Len(forwarded)
    /\ \A i \in 1..Len(forwarded) :
         WithoutAuthorization(twin.forwarded[i]) = WithoutAuthorization(forwarded[i])
    /\ KeyFree(res, apiKey)

C17_Witness ==
  /\ rpc = "done"
  /\ req.method = "POST"
  /\ twin.apiKey # apiKey
  /\ upstream.outcome.kind = "response"
  /\ upstream.outcome.status = 404
  /\ upstream.read = "ok"
  /\ res.statusCode = 500
  /\ twin.forwarded # forwarded

\* C20: an invocation sends one response, and none before it is done; a POST
\* is answered 200 exactly when upstream answered 2xx and its body arrived and
\* parsed as JSON, and 500 in every other case.
C20_OneResponse ==
  /\ res.sends = IF rpc = "done" THEN 1 ELSE 0
  /\ (rpc = "done" /\ req.method = "POST") =>
       /\ res.statusCode \in {200, 500}
       /\ res.statusCode = 200 <=>
            /\ upstream.outcome.kind = "response"
            /\ TwoHundreds(upstream.outcome.status)
            /\ upstream.read = "ok"
            /\ upstream.outcome.text.valid

C20_Witness ==
  /\ rpc = "done"
  /\ req.method = "POST"
  /\ upstream.outcome.kind = "response"
  /\ upstream.outcome.status = 204
  /\ upstream.outcome.text = NotJSON("")
  /\ upstream.read = "ok"
  /\ res.statusCode = 500
  /\ res.sends = 1

\* A storage item with no id in it: absent, or the empty string.
Missing(x) == ~Truthy(x)
TooLong(x) == Truthy(x) /\ Len(x.v) > MaxIdLen
ValidId(x) == Truthy(x) /\ Len(x.v) <= MaxIdLen
Generated(x) == \E u \in uuidv4 : x = JStr(NewId(u))

IsMount == lastOp'.op = "mount"

\* C14: a read that finds a missing stored id, or one longer than 32
\* characters, returns a newly generated id of at most 32 characters and
\* writes it to that storage, for the sessionId and for the userId alike;
\* after the read both stored values have at most 32 characters.
C14_Read ==
  IsMount =>
    /\ Missing(sessionStorage) \/ TooLong(sessionStorage) =>
          /\ Generated(sessionId')
          /\ sessionId' # sessionStorage
          /\ Len(sessionId'.v) <= MaxIdLen
          /\ sessionStorage' = sessionId'
    /\ Missing(localStorage) \/ TooLong(localStorage) =>
          /\ Generated(userId')
          /\ userId' # localStorage
          /\ Len(userId'.v) <= MaxIdLen
          /\ localStorage' = userId'
    /\ ValidId(sessionStorage') /\ ValidId(localStorage')

C14_InvalidReplaced == [][C14_Read]_vars

C14_Witness ==
  /\ lastOp.op = "mount"
  /\ ~lastOp.keptSession
  /\ ~lastOp.keptUser
  /\ Generated(sessionStorage) /\ sessionId = sessionStorage
  /\ Generated(localStorage) /\ userId = localStorage

\* C15: over page loads, reloads and session ends a valid stored userId is
\* returned by every read and never rewritten; a valid stored sessionId is
\* returned by every read of its session and not rewritten; the stored
\* sessionId changes only when the session ends, which clears it, or when a
\* read finds it missing or longer than 32 characters.
C15_Step ==
  /\ ValidId(localStorage) => localStorage' = localStorage
  /\ IsMount /\ ValidId(localStorage) => userId' = localStorage
  /\ IsMount /\ ValidId(sessionStorage) =>
        sessionId' = sessionStorage /\ sessionStorage' = sessionStorage
  /\ sessionStorage' # sessionStorage =>
        \/ lastOp'.op = "endSession" /\ sessionStorage' = JNull
        \/ IsMount /\ (Missing(sessionStorage) \/ TooLong(sessionStorage))

C15_IdentityPersists == [][C15_Step]_vars

\* A later read returned the ids an earlier read had generated.
C15_Witness ==
  /\ lastOp.op = "mount"
  /\ lastOp.keptSession /\ lastOp.keptUser
  /\ Generated(sessionId) /\ sessionId = sessionStorage
  /\ Generated(userId) /\ userId = localStorage

IsPrefix(s, t) == Len(s) <= Len(t) /\ SubSeq(t, 1, Len(s)) = s

\* C16: within one page load every step leaves the earlier history as a
\* prefix of the later one, so no message is removed, reordered or changed
\* and the length never decreases.
C16_AppendOnly == [][IsPrefix(conversation, conversation')]_vars

\* Two whole turns: two Submits and two completions that each appended.
C16_Witness ==
  /\ Len(conversation) = 4
  /\ Len(calls) = 2
  /\ \A i \in 1..2 : calls[i].pc = "done"

\* The submission lifecycle read off the two flags.
LifeState(busy, err) ==
  CASE ~busy /\ err = JNull -> "Idle"
    [] busy /\ err = JNull -> "Awaiting"
    [] ~busy /\ err # JNull -> "Errored"
    [] OTHER -> "BusyWithError"

Accepted == IsSubmit(lastOp') /\ Len(calls') = Len(calls) + 1
Resolved == lastOp'.op \in {"fetch", "json"} /\ calls'[lastOp'.call].pc = "done"
Succeeded == Resolved /\ Len(conversation') = Len(conversation) + 1
Failed == Resolved /\ conversation' = conversation

C18_Step ==
  LET from == LifeState(isLoading, error)
      to == LifeState(isLoading', error')
  IN /\ to # "BusyWithError"
     /\ from # to =>
           \/ from = "Idle" /\ to = "Awaiting" /\ Accepted
           \/ from = "Awaiting" /\ to = "Idle" /\ Succeeded
           \/ from = "Awaiting" /\ to = "Errored" /\ Failed
           \/ from = "Errored" /\ to = "Awaiting" /\ Accepted

\* C18: the flags (busy, error) are never (true, set), and every step that
\* changes the lifecycle state is Idle->Awaiting or Errored->Awaiting on an
\* accepted Submit, Awaiting->Idle on a success, or Awaiting->Errored on a
\* failure.
C18_Lifecycle == [][C18_Step]_vars

Agents(h) == Len(SelectSeq(h, LAMBDA m : m.role = "agent"))
Users(h) == Len(SelectSeq(h, LAMBDA m : m.role = "user"))

\* C19: every agent message in the history directly follows a user
\* message: the history does not start with an agent message, has no two
\* adjacent agent messages, and has no more agent than user messages.
C19_AgentFollowsUser ==
  /\ \A i \in 1..Len(conversation) :
        conversation[i].role = "agent" =>
          i > 1 /\ conversation[i - 1].role = "user"
  /\ Agents(conversation) <= Users(conversation)

C21_Step ==
  /\ Accepted => message' = <<>>
  /\ Succeeded => message' = <<>>
  /\ Failed => message' = message
  /\ Resolved => Succeeded \/ Failed
  /\ (/\ lastOp'.op = "fetch"
      /\ \/ lastOp'.outcome.kind # "response"
         \/ ~TwoHundreds(lastOp'.outcome.status)) => Failed
  /\ (/\ lastOp'.op = "json"
      /\ Parses(lastOp'.text)
      /\ JSONparse(lastOp'.text).t = "obj") => Succeeded

\* C21: an accepted Submit empties the input field; a request that resolves
\* with an agent message appended empties it again, whatever was typed in
\* the meantime; a request that fails leaves the input field as it is. A
\* network failure or a non-2xx answer is a failure, a 2xx answer with a
\* JSON object as body is a success.
C21_InputAcrossTurn == [][C21_Step]_vars

\* Text typed while the only request was in flight, discarded by its success.
C21_Witness ==
  /\ lastOp.op = "json"
  /\ lastOp.typed = <<"a">>
  /\ message = <<>>
  /\ Len(calls) = 1
  /\ calls[1].pc = "done"
  /\ Len(conversation) = 2
  /\ conversation[2].role = "agent"

====
